---- MODULE Spec2Model ----
(***************************************************************************)
(* pg_controldata: a set-returning backend function that reads             *)
(* $PGDATA/global/pg_control, checks its CRC and returns 30 (name,         *)
(* setting) rows.  The model follows src/pg_controldata.c statement by     *)
(* statement.  The control file and the local ControlFile buffer are       *)
(* sequences of bytes (0..255); byte k of the C object is element k+1.     *)
(* 32-bit and 64-bit quantities are kept as bytes, so no value is ever     *)
(* truncated by the checker's integers.                                    *)
(***************************************************************************)
EXTENDS Integers, Sequences, FiniteSets, TLC

\* ------------------------------------------------------------------ bytes

Bytes == 0..255

\* a ^ b for two 4-bit values is NibbleXor[a + 1][b + 1]
NibbleXor ==
  <<
    <<0, 1, 2, 3, 4, 5, 6, 7, 8, 9, 10, 11, 12, 13, 14, 15>>,
    <<1, 0, 3, 2, 5, 4, 7, 6, 9, 8, 11, 10, 13, 12, 15, 14>>,
    <<2, 3, 0, 1, 6, 7, 4, 5, 10, 11, 8, 9, 14, 15, 12, 13>>,
    <<3, 2, 1, 0, 7, 6, 5, 4, 11, 10, 9, 8, 15, 14, 13, 12>>,
    <<4, 5, 6, 7, 0, 1, 2, 3, 12, 13, 14, 15, 8, 9, 10, 11>>,
    <<5, 4, 7, 6, 1, 0, 3, 2, 13, 12, 15, 14, 9, 8, 11, 10>>,
    <<6, 7, 4, 5, 2, 3, 0, 1, 14, 15, 12, 13, 10, 11, 8, 9>>,
    <<7, 6, 5, 4, 3, 2, 1, 0, 15, 14, 13, 12, 11, 10, 9, 8>>,
    <<8, 9, 10, 11, 12, 13, 14, 15, 0, 1, 2, 3, 4, 5, 6, 7>>,
    <<9, 8, 11, 10, 13, 12, 15, 14, 1, 0, 3, 2, 5, 4, 7, 6>>,
    <<10, 11, 8, 9, 14, 15, 12, 13, 2, 3, 0, 1, 6, 7, 4, 5>>,
    <<11, 10, 9, 8, 15, 14, 13, 12, 3, 2, 1, 0, 7, 6, 5, 4>>,
    <<12, 13, 14, 15, 8, 9, 10, 11, 4, 5, 6, 7, 0, 1, 2, 3>>,
    <<13, 12, 15, 14, 9, 8, 11, 10, 5, 4, 7, 6, 1, 0, 3, 2>>,
    <<14, 15, 12, 13, 10, 11, 8, 9, 6, 7, 4, 5, 2, 3, 0, 1>>,
    <<15, 14, 13, 12, 11, 10, 9, 8, 7, 6, 5, 4, 3, 2, 1, 0>>
  >>

\* the C operator ^ on two unsigned chars
Xor8(a, b) ==
  16 * NibbleXor[(a \div 16) + 1][(b \div 16) + 1]
    + NibbleXor[(a % 16) + 1][(b % 16) + 1]

\* the same on two uint32, each its four bytes, most significant first
Xor32(x, y) ==
  <<Xor8(x[1], y[1]), Xor8(x[2], y[2]), Xor8(x[3], y[3]), Xor8(x[4], y[4])>>

\* x << 8 on a uint32
Shl8(x) == <<x[2], x[3], x[4], 0>>

\* ------------------------------------------------------------------ CRC
\* utils/pg_crc.h as this code's PostgreSQL (9.0) has it:
\*   INIT_CRC32(crc)   crc = 0xFFFFFFFF
\*   COMP_CRC32        for each byte: i = ((crc >> 24) ^ byte) & 0xFF;
\*                                    crc = pg_crc32_table[i] ^ (crc << 8)
\*   FIN_CRC32(crc)    crc ^= 0xFFFFFFFF
\*   EQ_CRC32(a, b)    a == b
\* pg_crc32_table is the literal table of utils/pg_crc.c (the reflected
\* polynomial 0xEDB88320).

\* element i+1 is pg_crc32_table[i], most significant byte first
pg_crc32_table ==
  <<
  <<0, 0, 0, 0>>, <<119, 7, 48, 150>>, <<238, 14, 97, 44>>, <<153, 9, 81, 186>>,
  <<7, 109, 196, 25>>, <<112, 106, 244, 143>>, <<233, 99, 165, 53>>, <<158, 100, 149, 163>>,
  <<14, 219, 136, 50>>, <<121, 220, 184, 164>>, <<224, 213, 233, 30>>, <<151, 210, 217, 136>>,
  <<9, 182, 76, 43>>, <<126, 177, 124, 189>>, <<231, 184, 45, 7>>, <<144, 191, 29, 145>>,
  <<29, 183, 16, 100>>, <<106, 176, 32, 242>>, <<243, 185, 113, 72>>, <<132, 190, 65, 222>>,
  <<26, 218, 212, 125>>, <<109, 221, 228, 235>>, <<244, 212, 181, 81>>, <<131, 211, 133, 199>>,
  <<19, 108, 152, 86>>, <<100, 107, 168, 192>>, <<253, 98, 249, 122>>, <<138, 101, 201, 236>>,
  <<20, 1, 92, 79>>, <<99, 6, 108, 217>>, <<250, 15, 61, 99>>, <<141, 8, 13, 245>>,
  <<59, 110, 32, 200>>, <<76, 105, 16, 94>>, <<213, 96, 65, 228>>, <<162, 103, 113, 114>>,
  <<60, 3, 228, 209>>, <<75, 4, 212, 71>>, <<210, 13, 133, 253>>, <<165, 10, 181, 107>>,
  <<53, 181, 168, 250>>, <<66, 178, 152, 108>>, <<219, 187, 201, 214>>, <<172, 188, 249, 64>>,
  <<50, 216, 108, 227>>, <<69, 223, 92, 117>>, <<220, 214, 13, 207>>, <<171, 209, 61, 89>>,
  <<38, 217, 48, 172>>, <<81, 222, 0, 58>>, <<200, 215, 81, 128>>, <<191, 208, 97, 22>>,
  <<33, 180, 244, 181>>, <<86, 179, 196, 35>>, <<207, 186, 149, 153>>, <<184, 189, 165, 15>>,
  <<40, 2, 184, 158>>, <<95, 5, 136, 8>>, <<198, 12, 217, 178>>, <<177, 11, 233, 36>>,
  <<47, 111, 124, 135>>, <<88, 104, 76, 17>>, <<193, 97, 29, 171>>, <<182, 102, 45, 61>>,
  <<118, 220, 65, 144>>, <<1, 219, 113, 6>>, <<152, 210, 32, 188>>, <<239, 213, 16, 42>>,
  <<113, 177, 133, 137>>, <<6, 182, 181, 31>>, <<159, 191, 228, 165>>, <<232, 184, 212, 51>>,
  <<120, 7, 201, 162>>, <<15, 0, 249, 52>>, <<150, 9, 168, 142>>, <<225, 14, 152, 24>>,
  <<127, 106, 13, 187>>, <<8, 109, 61, 45>>, <<145, 100, 108, 151>>, <<230, 99, 92, 1>>,
  <<107, 107, 81, 244>>, <<28, 108, 97, 98>>, <<133, 101, 48, 216>>, <<242, 98, 0, 78>>,
  <<108, 6, 149, 237>>, <<27, 1, 165, 123>>, <<130, 8, 244, 193>>, <<245, 15, 196, 87>>,
  <<101, 176, 217, 198>>, <<18, 183, 233, 80>>, <<139, 190, 184, 234>>, <<252, 185, 136, 124>>,
  <<98, 221, 29, 223>>, <<21, 218, 45, 73>>, <<140, 211, 124, 243>>, <<251, 212, 76, 101>>,
  <<77, 178, 97, 88>>, <<58, 181, 81, 206>>, <<163, 188, 0, 116>>, <<212, 187, 48, 226>>,
  <<74, 223, 165, 65>>, <<61, 216, 149, 215>>, <<164, 209, 196, 109>>, <<211, 214, 244, 251>>,
  <<67, 105, 233, 106>>, <<52, 110, 217, 252>>, <<173, 103, 136, 70>>, <<218, 96, 184, 208>>,
  <<68, 4, 45, 115>>, <<51, 3, 29, 229>>, <<170, 10, 76, 95>>, <<221, 13, 124, 201>>,
  <<80, 5, 113, 60>>, <<39, 2, 65, 170>>, <<190, 11, 16, 16>>, <<201, 12, 32, 134>>,
  <<87, 104, 181, 37>>, <<32, 111, 133, 179>>, <<185, 102, 212, 9>>, <<206, 97, 228, 159>>,
  <<94, 222, 249, 14>>, <<41, 217, 201, 152>>, <<176, 208, 152, 34>>, <<199, 215, 168, 180>>,
  <<89, 179, 61, 23>>, <<46, 180, 13, 129>>, <<183, 189, 92, 59>>, <<192, 186, 108, 173>>,
  <<237, 184, 131, 32>>, <<154, 191, 179, 182>>, <<3, 182, 226, 12>>, <<116, 177, 210, 154>>,
  <<234, 213, 71, 57>>, <<157, 210, 119, 175>>, <<4, 219, 38, 21>>, <<115, 220, 22, 131>>,
  <<227, 99, 11, 18>>, <<148, 100, 59, 132>>, <<13, 109, 106, 62>>, <<122, 106, 90, 168>>,
  <<228, 14, 207, 11>>, <<147, 9, 255, 157>>, <<10, 0, 174, 39>>, <<125, 7, 158, 177>>,
  <<240, 15, 147, 68>>, <<135, 8, 163, 210>>, <<30, 1, 242, 104>>, <<105, 6, 194, 254>>,
  <<247, 98, 87, 93>>, <<128, 101, 103, 203>>, <<25, 108, 54, 113>>, <<110, 107, 6, 231>>,
  <<254, 212, 27, 118>>, <<137, 211, 43, 224>>, <<16, 218, 122, 90>>, <<103, 221, 74, 204>>,
  <<249, 185, 223, 111>>, <<142, 190, 239, 249>>, <<23, 183, 190, 67>>, <<96, 176, 142, 213>>,
  <<214, 214, 163, 232>>, <<161, 209, 147, 126>>, <<56, 216, 194, 196>>, <<79, 223, 242, 82>>,
  <<209, 187, 103, 241>>, <<166, 188, 87, 103>>, <<63, 181, 6, 221>>, <<72, 178, 54, 75>>,
  <<216, 13, 43, 218>>, <<175, 10, 27, 76>>, <<54, 3, 74, 246>>, <<65, 4, 122, 96>>,
  <<223, 96, 239, 195>>, <<168, 103, 223, 85>>, <<49, 110, 142, 239>>, <<70, 105, 190, 121>>,
  <<203, 97, 179, 140>>, <<188, 102, 131, 26>>, <<37, 111, 210, 160>>, <<82, 104, 226, 54>>,
  <<204, 12, 119, 149>>, <<187, 11, 71, 3>>, <<34, 2, 22, 185>>, <<85, 5, 38, 47>>,
  <<197, 186, 59, 190>>, <<178, 189, 11, 40>>, <<43, 180, 90, 146>>, <<92, 179, 106, 4>>,
  <<194, 215, 255, 167>>, <<181, 208, 207, 49>>, <<44, 217, 158, 139>>, <<91, 222, 174, 29>>,
  <<155, 100, 194, 176>>, <<236, 99, 242, 38>>, <<117, 106, 163, 156>>, <<2, 109, 147, 10>>,
  <<156, 9, 6, 169>>, <<235, 14, 54, 63>>, <<114, 7, 103, 133>>, <<5, 0, 87, 19>>,
  <<149, 191, 74, 130>>, <<226, 184, 122, 20>>, <<123, 177, 43, 174>>, <<12, 182, 27, 56>>,
  <<146, 210, 142, 155>>, <<229, 213, 190, 13>>, <<124, 220, 239, 183>>, <<11, 219, 223, 33>>,
  <<134, 211, 210, 212>>, <<241, 212, 226, 66>>, <<104, 221, 179, 248>>, <<31, 218, 131, 110>>,
  <<129, 190, 22, 205>>, <<246, 185, 38, 91>>, <<111, 176, 119, 225>>, <<24, 183, 71, 119>>,
  <<136, 8, 90, 230>>, <<255, 15, 106, 112>>, <<102, 6, 59, 202>>, <<17, 1, 11, 92>>,
  <<143, 101, 158, 255>>, <<248, 98, 174, 105>>, <<97, 107, 255, 211>>, <<22, 108, 207, 69>>,
  <<160, 10, 226, 120>>, <<215, 13, 210, 238>>, <<78, 4, 131, 84>>, <<57, 3, 179, 194>>,
  <<167, 103, 38, 97>>, <<208, 96, 22, 247>>, <<73, 105, 71, 77>>, <<62, 110, 119, 219>>,
  <<174, 209, 106, 74>>, <<217, 214, 90, 220>>, <<64, 223, 11, 102>>, <<55, 216, 59, 240>>,
  <<169, 188, 174, 83>>, <<222, 187, 158, 197>>, <<71, 178, 207, 127>>, <<48, 181, 255, 233>>,
  <<189, 189, 242, 28>>, <<202, 186, 194, 138>>, <<83, 179, 147, 48>>, <<36, 180, 163, 166>>,
  <<186, 208, 54, 5>>, <<205, 215, 6, 147>>, <<84, 222, 87, 41>>, <<35, 217, 103, 191>>,
  <<179, 102, 122, 46>>, <<196, 97, 74, 184>>, <<93, 104, 27, 2>>, <<42, 111, 43, 148>>,
  <<180, 11, 190, 55>>, <<195, 12, 142, 161>>, <<90, 5, 223, 27>>, <<45, 2, 239, 141>>
  >>

INIT_CRC32 == <<255, 255, 255, 255>>

\* one round of the COMP_CRC32 loop
CrcByte(crc, byte) ==
  Xor32(pg_crc32_table[Xor8(crc[1], byte) + 1], Shl8(crc))

RECURSIVE COMP_CRC32(_, _, _, _)
\* accumulate bytes data[from+1 .. from+len] into crc, in order (the range is
\* halved, and the left half computed first, only to keep evaluation shallow)
COMP_CRC32(crc, data, from, len) ==
  IF len = 0 THEN crc
  ELSE IF len = 1 THEN CrcByte(crc, data[from + 1])
  ELSE LET h == len \div 2
           c == COMP_CRC32(crc, data, from, h)
       IN IF c[1] \in Bytes THEN COMP_CRC32(c, data, from + h, len - h) ELSE c

FIN_CRC32(crc) == Xor32(crc, <<255, 255, 255, 255>>)

\* an assignment where the comparison was meant: true for any nonzero crc
EQ_CRC32_Assign(c1, c2) == c2 # <<0, 0, 0, 0>>

EQ_CRC32(c1, c2) == c1 = c2

\* ------------------------------------------------------------ formatting
\* printf's conversions, on the bytes of the value (little-endian, as the
\* control file of a little-endian LP64 server holds them).

Digit == <<"0", "1", "2", "3", "4", "5", "6", "7", "8", "9",
           "A", "B", "C", "D", "E", "F">>

RECURSIVE Reverse(_)
Reverse(s) == IF s = <<>> THEN <<>> ELSE Reverse(Tail(s)) \o <<Head(s)>>

IsZero(bytes) == \A k \in 1..Len(bytes) : bytes[k] = 0

RECURSIVE Div10(_, _, _)
\* long division by ten of a big-endian byte string: <<quotient, remainder>>
Div10(be, k, rem) ==
  IF k > Len(be) THEN <<<<>>, rem>>
  ELSE LET cur  == rem * 256 + be[k]
           rest == Div10(be, k + 1, cur % 10)
       IN <<<<cur \div 10>> \o rest[1], rest[2]>>

RECURSIVE DecDigits(_)
DecDigits(be) ==
  IF IsZero(be) THEN ""
  ELSE LET d == Div10(be, 1, 0) IN DecDigits(d[1]) \o Digit[d[2] + 1]

\* "%u" (4 bytes) and UINT64_FORMAT (8 bytes): unsigned decimal
FormatUnsigned(le) == IF IsZero(le) THEN "0" ELSE DecDigits(Reverse(le))

RECURSIVE HexDigits(_, _)
\* hexadecimal digits of a big-endian byte string, leading zeros dropped
HexDigits(be, started) ==
  IF be = <<>> THEN ""
  ELSE LET hi == Head(be) \div 16
           lo == Head(be) % 16
           s1 == IF started \/ hi # 0 THEN Digit[hi + 1] ELSE ""
           s2 == IF started \/ hi # 0 \/ lo # 0 THEN Digit[lo + 1] ELSE ""
       IN s1 \o s2 \o HexDigits(Tail(be), started \/ Head(be) # 0)

\* "%X": unsigned hexadecimal, upper case, no padding
FormatHex(le) == IF IsZero(le) THEN "0" ELSE HexDigits(Reverse(le), FALSE)

\* a small non-negative int in decimal
RECURSIVE IntStr(_)
IntStr(n) == IF n < 10 THEN Digit[n + 1] ELSE IntStr(n \div 10) \o Digit[(n % 10) + 1]

Pad2(n, fill) == IF n < 10 THEN fill \o Digit[n + 1] ELSE IntStr(n)

\* ------------------------------------------------------------------ time
\* (time_t) of a pg_time_t (int64) on an LP64 build keeps all 64 bits.
\* localtime() gives the broken-down local time, or NULL when the year does
\* not fit struct tm's int (errno EOVERFLOW).  Two ranges are modelled: the
\* seconds counts from 0 to 127 * 2^24 - 1, converted exactly, and the counts of magnitude
\* 2^56 and more, for which localtime() returns NULL.

NULL == "NULL"

SmallTime(le) == le[4] < 127 /\ \A k \in 5..8 : le[k] = 0

HugeTime(le) == le[8] \notin {0, 255}

Seconds(le) == le[1] + 256 * le[2] + 65536 * le[3] + 16777216 * le[4]

\* the days since 1970-01-01 as a civil date (proleptic Gregorian calendar)
CivilFromDays(days) ==
  LET z   == days + 719468
      era == z \div 146097
      doe == z - era * 146097
      yoe == (doe - doe \div 1460 + doe \div 36524 - doe \div 146096) \div 365
      doy == doe - (365 * yoe + yoe \div 4 - yoe \div 100)
      mp  == (5 * doy + 2) \div 153
      m   == IF mp < 10 THEN mp + 3 ELSE mp - 9
  IN [year |-> yoe + era * 400 + (IF m <= 2 THEN 1 ELSE 0),
      mon  |-> m - 1,
      mday |-> doy - (153 * mp + 2) \div 5 + 1]

\* localtime(&t) in a process whose timezone is tz seconds east of UTC
localtime(tz, le) ==
  CASE SmallTime(le) ->
         LET loc == Seconds(le) + tz
             d   == CivilFromDays(loc \div 86400)
             sod == loc % 86400
         IN [null |-> FALSE, tm_year |-> d.year, tm_mon |-> d.mon, tm_mday |-> d.mday,
             tm_wday |-> ((loc \div 86400) + 4) % 7,
             tm_hour |-> sod \div 3600, tm_min |-> (sod % 3600) \div 60,
             tm_sec |-> sod % 60]
    [] HugeTime(le) -> [null |-> TRUE]

WeekDay == <<"Sun", "Mon", "Tue", "Wed", "Thu", "Fri", "Sat">>

Month == <<"Jan", "Feb", "Mar", "Apr", "May", "Jun",
           "Jul", "Aug", "Sep", "Oct", "Nov", "Dec">>

\* strftime(s, max, "%c", tm) for a non-NULL tm: "%a %b %e %H:%M:%S %Y"
strftime(tm) ==
  WeekDay[tm.tm_wday + 1] \o " " \o Month[tm.tm_mon + 1] \o " "
    \o Pad2(tm.tm_mday, " ") \o " " \o Pad2(tm.tm_hour, "0") \o ":"
    \o Pad2(tm.tm_min, "0") \o ":" \o Pad2(tm.tm_sec, "0") \o " "
    \o IntStr(tm.tm_year)

\* ---------------------------------------------------------- ControlFileData
\* The layout of ControlFileData (catalog/pg_control.h, PostgreSQL 9.0, LP64):
\* byte offsets of the members get_controldata reads.  A uint32, an enum and a
\* half of an XLogRecPtr take 4 bytes, a uint64 and a pg_time_t 8, a bool 1.

SizeofControlFileData == 192

OffsetofCrc == 184

Off ==
  [system_identifier |-> 0, pg_control_version |-> 8, catalog_version_no |-> 12,
   state |-> 16, time |-> 24, checkPoint |-> 32, prevCheckPoint |-> 40,
   redo |-> 48, ThisTimeLineID |-> 56, nextXidEpoch |-> 60, nextXid |-> 64,
   nextOid |-> 68, nextMulti |-> 72, nextMultiOffset |-> 76, oldestXid |-> 80,
   oldestXidDB |-> 84, ckptTime |-> 88, oldestActiveXid |-> 96,
   minRecoveryPoint |-> 104, backupStartPoint |-> 112, maxAlign |-> 136,
   blcksz |-> 152, relseg_size |-> 156, xlog_blcksz |-> 160,
   xlog_seg_size |-> 164, nameDataLen |-> 168, indexMaxKeys |-> 172,
   toast_max_chunk_size |-> 176, enableIntTimes |-> 180, float4ByVal |-> 181,
   float8ByVal |-> 182, crc |-> 184]

\* the n bytes of a member at offset off
Member(cf, off, n) == SubSeq(cf, off + 1, off + n)

\* the value of an int32 member (DBState is an int-sized enum)
Int32(le) ==
  le[1] + 256 * le[2] + 65536 * le[3]
    + 16777216 * (IF le[4] >= 128 THEN le[4] - 256 ELSE le[4])

\* the crc member as a uint32, most significant byte first
StoredCrc(cf) == Reverse(Member(cf, Off.crc, 4))

\* lines 230-234: the CRC of the bytes before the crc member
ComputedCrc(cf) == FIN_CRC32(COMP_CRC32(INIT_CRC32, cf, 0, OffsetofCrc))

\* ------------------------------------------------------------------ dbState

DB_STARTUP == 0

DB_SHUTDOWNED == 1

DB_SHUTDOWNING == 3

DB_IN_CRASH_RECOVERY == 4

DB_IN_ARCHIVE_RECOVERY == 5

DB_IN_PRODUCTION == 6

dbState(state) ==
  CASE state = DB_STARTUP -> "starting up"
    [] state = DB_SHUTDOWNED -> "shut down"
    [] state = DB_SHUTDOWNING -> "shutting down"
    [] state = DB_IN_CRASH_RECOVERY -> "in crash recovery"
    [] state = DB_IN_ARCHIVE_RECOVERY -> "in archive recovery"
    [] state = DB_IN_PRODUCTION -> "in production"
    [] OTHER -> "unrecognized status code"

\* -------------------------------------------------------------- ControlData
\* The static table: 30 named rows and the {NULL, NULL} sentinel.

Names ==
  <<"pg_control version number", "Catalog version number",
    "Database system identifier", "Database cluster state",
    "pg_control last modified", "Latest checkpoint location",
    "Prior checkpoint location", "Latest checkpoint's REDO location",
    "Latest checkpoint's TimeLineID", "Latest checkpoint's NextXID",
    "Latest checkpoint's NextOID", "Latest checkpoint's NextMultiXactId",
    "Latest checkpoint's NextMultiOffset", "Latest checkpoint's oldestXID",
    "Latest checkpoint's oldestXID's DB", "Latest checkpoint's oldestActiveXID",
    "Time of latest checkpoint", "Minimum recovery ending location",
    "Backup start location", "Maximum data alignment", "Database block size",
    "Blocks per segment of large relation", "WAL block size",
    "Bytes per WAL segment", "Maximum length of identifiers",
    "Maximum columns in an index", "Maximum size of a TOAST chunk",
    "Date/time type storage", "Float4 argument passing",
    "Float8 argument passing">>

NFields == 30

\* the initializer of ControlData, indexed as in C
ControlDataInit ==
  [i \in 0..NFields |->
     IF i < NFields THEN [name |-> Names[i + 1], setting |-> NULL]
     ELSE [name |-> NULL, setting |-> NULL]]

\* a setting whose string was allocated in a per-query memory context that
\* has since been reset: the pointer is still in the table, the string is not
DANGLING == "DANGLING"

\* ------------------------------------------------------- get_controldata
\* appendStringInfo(&buf, ...) on a buffer that initStringInfo or
\* resetStringInfo has just emptied; pstrdup(buf.data) copies the text.

Uint(cf, off) == FormatUnsigned(Member(cf, off, 4))

\* "%X/%X" of an XLogRecPtr {xlogid, xrecoff}
RecPtr(cf, off) ==
  FormatHex(Member(cf, off, 4)) \o "/" \o FormatHex(Member(cf, off + 4, 4))

Flag(cf, off) == cf[off + 1] # 0

\* the text stored in ControlData[i].setting, lines 265-382
FieldText(i, cf, pgctime_str, ckpttime_str, sysident_str) ==
  CASE i = 0 -> Uint(cf, Off.pg_control_version)
    [] i = 1 -> Uint(cf, Off.catalog_version_no)
    [] i = 2 -> sysident_str
    [] i = 3 -> dbState(Int32(Member(cf, Off.state, 4)))
    [] i = 4 -> pgctime_str
    [] i = 5 -> RecPtr(cf, Off.checkPoint)
    [] i = 6 -> RecPtr(cf, Off.prevCheckPoint)
    [] i = 7 -> RecPtr(cf, Off.redo)
    [] i = 8 -> Uint(cf, Off.ThisTimeLineID)
    [] i = 9 -> Uint(cf, Off.nextXidEpoch) \o "/" \o Uint(cf, Off.nextXid)
    [] i = 10 -> Uint(cf, Off.nextOid)
    [] i = 11 -> Uint(cf, Off.nextMulti)
    [] i = 12 -> Uint(cf, Off.nextMultiOffset)
    [] i = 13 -> Uint(cf, Off.oldestXid)
    [] i = 14 -> Uint(cf, Off.oldestXidDB)
    [] i = 15 -> Uint(cf, Off.oldestActiveXid)
    [] i = 16 -> ckpttime_str
    [] i = 17 -> RecPtr(cf, Off.minRecoveryPoint)
    [] i = 18 -> RecPtr(cf, Off.backupStartPoint)
    [] i = 19 -> Uint(cf, Off.maxAlign)
    [] i = 20 -> Uint(cf, Off.blcksz)
    [] i = 21 -> Uint(cf, Off.relseg_size)
    [] i = 22 -> Uint(cf, Off.xlog_blcksz)
    [] i = 23 -> Uint(cf, Off.xlog_seg_size)
    [] i = 24 -> Uint(cf, Off.nameDataLen)
    [] i = 25 -> Uint(cf, Off.indexMaxKeys)
    [] i = 26 -> Uint(cf, Off.toast_max_chunk_size)
    [] i = 27 -> IF Flag(cf, Off.enableIntTimes) THEN "64-bit integers"
                 ELSE "floating-point numbers"
    [] i = 28 -> IF Flag(cf, Off.float4ByVal) THEN "by value" ELSE "by reference"
    [] i = 29 -> IF Flag(cf, Off.float8ByVal) THEN "by value" ELSE "by reference"

\* the setting is filled in only while it is still NULL
StoreSetting_IfNull(table, i, text) ==
  [table EXCEPT ![i].setting = IF @ = NULL THEN text ELSE @]

\* the new text is appended to what the setting already holds
StoreSetting_Append(table, i, text) ==
  [table EXCEPT ![i].setting = IF @ = NULL THEN text ELSE @ \o text]

\* the index is one too high: the sentinel's setting is written, row 0 is not
StoreSetting_Next(table, i, text) == [table EXCEPT ![i + 1].setting = text]

\* ControlData[i].setting = pstrdup(buf.data)
StoreSetting(table, i, text) == [table EXCEPT ![i].setting = text]

RECURSIVE StoreSettings(_, _, _, _, _, _)
\* lines 263-383: the 30 assignments, in order, from index i on
StoreSettings(table, i, cf, pgctime_str, ckpttime_str, sysident_str) ==
  IF i = NFields THEN table
  ELSE StoreSettings(
         StoreSetting(table, i,
                      FieldText(i, cf, pgctime_str, ckpttime_str, sysident_str)),
         i + 1, cf, pgctime_str, ckpttime_str, sysident_str)

\* ---------------------------------------------------------- pg_controldata
RECURSIVE EmitRows(_, _, _)
\* lines 149-157: one tuple per entry until the first NULL name; a NULL
\* setting gives a NULL column, a dangling one whatever the freed memory holds
EmitRows(table, i, junk) ==
  IF table[i].name = NULL THEN <<>>
  ELSE <<<<table[i].name,
           IF table[i].setting = DANGLING THEN junk ELSE table[i].setting>>>>
         \o EmitRows(table, i + 1, junk)

\* ------------------------------------------------------------ the server
\* pg_control is written by the server that owns the data directory: a whole
\* ControlFileData with its crc member set to the CRC of the bytes before it.

RECURSIVE LE(_, _)
\* a non-negative int as w little-endian bytes
LE(n, w) == IF w = 0 THEN <<>> ELSE <<n % 256>> \o LE(n \div 256, w - 1)

Zeros(n) == [k \in 1..n |-> 0]

\* the bytes of a ControlFileData before its crc member, padding included
\* (members the function never reads are left zero)
Struct(f) ==
  f.system_identifier \o LE(f.pg_control_version, 4) \o LE(f.catalog_version_no, 4)
    \o f.state \o Zeros(4) \o f.time
    \o f.checkPoint \o f.prevCheckPoint
    \o f.redo \o LE(f.ThisTimeLineID, 4) \o LE(f.nextXidEpoch, 4) \o f.nextXid
    \o LE(f.nextOid, 4) \o LE(f.nextMulti, 4) \o LE(f.nextMultiOffset, 4)
    \o LE(f.oldestXid, 4) \o LE(f.oldestXidDB, 4) \o f.ckptTime
    \o LE(f.oldestActiveXid, 4) \o Zeros(4)
    \o f.minRecoveryPoint \o f.backupStartPoint
    \o Zeros(16) \o LE(f.maxAlign, 4) \o Zeros(4) \o Zeros(8)
    \o LE(f.blcksz, 4) \o LE(f.relseg_size, 4) \o LE(f.xlog_blcksz, 4)
    \o LE(f.xlog_seg_size, 4) \o LE(f.nameDataLen, 4) \o LE(f.indexMaxKeys, 4)
    \o LE(f.toast_max_chunk_size, 4)
    \o <<f.enableIntTimes, f.float4ByVal, f.float8ByVal, 0>>

\* the first SizeofControlFileData bytes of the file the server writes
Image(f) ==
  LET body == Struct(f)
  IN body \o Reverse(ComputedCrc(body)) \o Zeros(4)

\* a cluster in production
InProduction ==
  [system_identifier |-> <<121, 223, 13, 134, 72, 112, 0, 0>>,
   pg_control_version |-> 903, catalog_version_no |-> 201008051,
   state |-> LE(DB_IN_PRODUCTION, 4),
   time |-> LE(1283223040, 8),
   checkPoint |-> LE(1, 4) \o LE(42, 4), prevCheckPoint |-> LE(0, 4) \o LE(171, 4),
   redo |-> LE(1, 4) \o LE(32, 4), ThisTimeLineID |-> 1, nextXidEpoch |-> 0,
   nextXid |-> LE(654, 4), nextOid |-> 16384, nextMulti |-> 1,
   nextMultiOffset |-> 0, oldestXid |-> 641, oldestXidDB |-> 1,
   ckptTime |-> LE(1283223000, 8), oldestActiveXid |-> 0,
   minRecoveryPoint |-> LE(0, 8), backupStartPoint |-> LE(0, 8),
   maxAlign |-> 8, blcksz |-> 8192, relseg_size |-> 131072,
   xlog_blcksz |-> 8192, xlog_seg_size |-> 16777216, nameDataLen |-> 64,
   indexMaxKeys |-> 32, toast_max_chunk_size |-> 1996,
   enableIntTimes |-> 1, float4ByVal |-> 1, float8ByVal |-> 1]

\* a standby shut down in recovery (DB_SHUTDOWNED_IN_RECOVERY = 2, a state
\* dbState has no case for), values with the top bit set, flags off
Standby ==
  [InProduction EXCEPT
     !.system_identifier = <<255, 255, 255, 255, 255, 255, 255, 255>>,
     !.state = LE(2, 4), !.time = LE(86399, 8),
     !.checkPoint = <<255, 255, 255, 255, 0, 0, 0, 240>>,
     !.nextXidEpoch = 7, !.nextXid = <<255, 255, 255, 255>>,
     !.ckptTime = LE(0, 8), !.oldestActiveXid = 653,
     !.minRecoveryPoint = LE(2, 4) \o LE(2748, 4),
     !.backupStartPoint = LE(16, 4) \o LE(0, 4),
     !.enableIntTimes = 0, !.float4ByVal = 0, !.float8ByVal = 0]

\* a shut-down cluster whose last-modified time is 2^62 seconds
FarFuture ==
  [InProduction EXCEPT
     !.state = LE(DB_SHUTDOWNED, 4), !.time = <<0, 0, 0, 0, 0, 0, 0, 64>>]

\* a state from a later server (7), with a checkpoint time of 2^62 seconds
Unknown ==
  [Standby EXCEPT !.state = LE(7, 4), !.ckptTime = <<0, 0, 0, 0, 0, 0, 0, 64>>]

Records == {InProduction, Standby, FarFuture, Unknown}

ValidImages == {Image(f) : f \in Records}

\* -------------------------------------------------------------- the state

\* the descriptors one backend process may hold open (RLIMIT_NOFILE scaled
\* down): open() fails with EMFILE once they are all in use
MaxOpenFiles == 2

\* a bit of the bytes before the crc member is damaged on disk: every
\* FlipStride-th bit is tried
FlipStride == 211

FlipBits == {b \in 0..(8 * OffsetofCrc - 1) : b % FlipStride = 0}

\* where a concurrent write of the file may be cut in two by a read
TearPoints == {32}

\* the sizes a truncated control file may have
ShortLengths == {0, 96, SizeofControlFileData - 1}

\* seconds east of UTC of the process's timezone
TimeZones == {0, 3600}

\* what an uninitialized byte of the stack, or freed memory read as a
\* string, may hold
StackJunk == {0, 170}

HeapJunk == {"", "~"}

VARIABLES
  file,          \* global/pg_control: [exists, data], data its leading bytes
  tz,            \* the process's timezone, as localtime() sees it
  openFds,       \* the number of descriptors the process holds open
  ControlData,   \* the static table
  pc,            \* where the one call in progress stands
  fd,            \* get_controldata's fd
  ControlFile,   \* get_controldata's ControlFile, once read() has filled it
  pgctime_str,   \* get_controldata's pgctime_str
  ckpttime_str,  \* get_controldata's ckpttime_str
  sysident_str,  \* get_controldata's sysident_str
  tupstore,      \* pg_controldata's tuplestore
  result         \* what the last finished call gave its caller

locals == <<fd, ControlFile, pgctime_str, ckpttime_str, sysident_str>>

vars == <<file, tz, openFds, ControlData, pc, fd, ControlFile, pgctime_str,
          ckpttime_str, sysident_str, tupstore, result>>

NoResult == [status |-> "none", rows |-> <<>>, read |-> <<>>, tz |-> 0]

Init ==
  /\ file = [exists |-> TRUE, data |-> Image(InProduction)]
  /\ tz = 0
  /\ openFds = 0
  /\ ControlData = ControlDataInit
  /\ pc = "idle"
  /\ fd = -1
  /\ ControlFile = <<>>
  /\ pgctime_str = ""
  /\ ckpttime_str = ""
  /\ sysident_str = ""
  /\ tupstore = <<>>
  /\ result = NoResult

\* the locals of a call that is over
ResetLocals ==
  /\ fd' = -1
  /\ ControlFile' = <<>>
  /\ pgctime_str' = ""
  /\ ckpttime_str' = ""
  /\ sysident_str' = ""

\* elog(ERROR, ...) / ereport(ERROR, ...): control leaves the function for
\* the caller's error handler; the query is aborted and its memory, the
\* tuplestore included, is released.  Nothing closes a descriptor that
\* open() returned.
Elog(status) ==
  /\ pc' = "idle"
  /\ result' = [status |-> status, rows |-> <<>>, read |-> <<>>, tz |-> 0]
  /\ tupstore' = <<>>
  /\ ResetLocals
  /\ UNCHANGED <<file, tz, openFds, ControlData>>

\* --------------------------------------------------------------- the call

\* lines 105-146: the caller must accept a tuplestore and expect two text
\* columns; then the tuplestore is created and get_controldata is entered
Call(materialize, twoTexts) ==
  /\ pc = "idle"
  /\ IF ~materialize THEN Elog("materialize mode required")
     ELSE IF ~twoTexts THEN Elog("return type not compatible")
     ELSE /\ pc' = "open"
          /\ tupstore' = <<>>
          /\ UNCHANGED <<file, tz, openFds, ControlData, locals, result>>

\* line 219: open(ControlFilePath, O_RDONLY | PG_BINARY, 0)
OpenFails == ~file.exists \/ openFds >= MaxOpenFiles

\* lines 219-221
Open ==
  /\ pc = "open"
  /\ IF OpenFails THEN Elog("could not open file")
     ELSE /\ fd' = openFds
          /\ openFds' = openFds + 1
          /\ pc' = "read"
          /\ UNCHANGED <<file, tz, ControlData, ControlFile, pgctime_str,
                         ckpttime_str, sysident_str, tupstore, result>>

\* what read(fd, &ControlFile, sizeof(ControlFileData)) returns: -1 on an
\* I/O error, else the number of bytes the file had to give
BytesRead(ioError) ==
  IF ioError THEN -1
  ELSE IF Len(file.data) < SizeofControlFileData THEN Len(file.data)
  ELSE SizeofControlFileData

\* a test for a failed read only: a short count passes
ShortRead_OnlyErrors(n) == n < 0

\* line 223: the test on read()'s return value
ShortRead(n) == n # SizeofControlFileData

\* lines 223-225: the bytes read overwrite the start of ControlFile, the
\* rest of it keeps what the stack held
Read(ioError) ==
  /\ pc = "read"
  /\ IF ShortRead(BytesRead(ioError)) THEN Elog("could not read file")
     ELSE /\ \E j \in StackJunk :
               ControlFile' = SubSeq(file.data, 1, BytesRead(ioError))
                 \o [k \in 1..(SizeofControlFileData - BytesRead(ioError)) |-> j]
          /\ pc' = "close"
          /\ UNCHANGED <<file, tz, openFds, ControlData, fd, pgctime_str,
                         ckpttime_str, sysident_str, tupstore, result>>

\* line 227: close(fd)
Close ==
  /\ pc = "close"
  /\ openFds' = openFds - 1
  /\ pc' = "crc"
  /\ UNCHANGED <<file, tz, ControlData, locals, tupstore, result>>

\* a report that returns (elog(WARNING, ...)): the function goes on
ChecksumError_Warning ==
  /\ pc' = "time"
  /\ UNCHANGED <<file, tz, openFds, ControlData, locals, tupstore, result>>

\* line 237
ChecksumError == Elog("CRC checksum does not match")

\* lines 229-237
CheckCrc ==
  /\ pc = "crc"
  /\ IF ~EQ_CRC32(ComputedCrc(ControlFile), StoredCrc(ControlFile))
     THEN ChecksumError
     ELSE /\ pc' = "time"
          /\ UNCHANGED <<file, tz, openFds, ControlData, locals, tupstore, result>>

\* lines 248-260: strftime() dereferences what localtime() returned; a NULL
\* there is a null-pointer dereference, which ends the process (SIGSEGV)
FormatTimes ==
  /\ pc = "time"
  /\ LET tm1 == localtime(tz, Member(ControlFile, Off.time, 8))
         tm2 == localtime(tz, Member(ControlFile, Off.ckptTime, 8))
     IN IF tm1.null \/ tm2.null
        THEN /\ pc' = "crashed"
             /\ result' = [status |-> "crashed", rows |-> <<>>, read |-> <<>>,
                           tz |-> 0]
             /\ tupstore' = <<>>
             /\ UNCHANGED <<file, tz, openFds, ControlData, locals>>
        ELSE /\ pgctime_str' = strftime(tm1)
             /\ ckpttime_str' = strftime(tm2)
             /\ sysident_str'
                  = FormatUnsigned(Member(ControlFile, Off.system_identifier, 8))
             /\ pc' = "store"
             /\ UNCHANGED <<file, tz, openFds, ControlData, fd, ControlFile,
                            tupstore, result>>

\* lines 263-383
Store ==
  /\ pc = "store"
  /\ ControlData' = StoreSettings(ControlData, 0, ControlFile, pgctime_str,
                                  ckpttime_str, sysident_str)
  /\ pc' = "emit"
  /\ UNCHANGED <<file, tz, openFds, locals, tupstore, result>>

\* lines 149-157
Emit ==
  /\ pc = "emit"
  /\ \E junk \in HeapJunk : tupstore' = EmitRows(ControlData, 0, junk)
  /\ pc' = "return"
  /\ UNCHANGED <<file, tz, openFds, ControlData, locals, result>>

\* lines 163-178: the tuplestore goes to the caller.  When the query ends its
\* memory context is reset, and with it the strings the settings point to.
Return ==
  /\ pc = "return"
  /\ result' = [status |-> "ok", rows |-> tupstore, read |-> ControlFile,
                tz |-> tz]
  /\ ControlData' = [i \in DOMAIN ControlData |->
                       IF ControlData[i].setting = NULL THEN ControlData[i]
                       ELSE [ControlData[i] EXCEPT !.setting = DANGLING]]
  /\ tupstore' = <<>>
  /\ ResetLocals
  /\ pc' = "idle"
  /\ UNCHANGED <<file, tz, openFds>>

\* ------------------------------------------------------- the environment
\* The file and the timezone change between calls: a change while a call
\* runs is, for that call, a change before or after its one read().

EnvFrame ==
  UNCHANGED <<openFds, ControlData, pc, locals, tupstore, result>>

\* the server writes its control file
WriteControlFile(img) ==
  /\ pc = "idle"
  /\ file' = [exists |-> TRUE, data |-> img]
  /\ UNCHANGED tz
  /\ EnvFrame

FlipBit(data, b) ==
  LET k == (b \div 8) + 1
      m == 2 ^ (b % 8)
  IN [data EXCEPT ![k] = IF (@ \div m) % 2 = 1 THEN @ - m ELSE @ + m]

\* one bit before the crc member of an intact file is damaged
Damage(b) ==
  /\ pc = "idle"
  /\ file.exists
  /\ file.data \in ValidImages
  /\ file' = [file EXCEPT !.data = FlipBit(@, b)]
  /\ UNCHANGED tz
  /\ EnvFrame

\* a reader meets the server's write half done: the first k bytes are new
TornWrite(img, k) ==
  /\ pc = "idle"
  /\ file.exists
  /\ file.data \in ValidImages
  /\ img # file.data
  /\ file' = [file EXCEPT !.data = SubSeq(img, 1, k)
                                     \o SubSeq(@, k + 1, Len(@))]
  /\ UNCHANGED tz
  /\ EnvFrame

\* an intact file is cut short
Truncate(n) ==
  /\ pc = "idle"
  /\ file.exists
  /\ file.data \in ValidImages
  /\ file' = [file EXCEPT !.data = SubSeq(@, 1, n)]
  /\ UNCHANGED tz
  /\ EnvFrame

\* the file is removed
Unlink ==
  /\ pc = "idle"
  /\ file.exists
  /\ file' = [exists |-> FALSE, data |-> <<>>]
  /\ UNCHANGED tz
  /\ EnvFrame

\* the process's timezone changes
SetTZ(z) ==
  /\ pc = "idle"
  /\ z # tz
  /\ tz' = z
  /\ UNCHANGED file
  /\ EnvFrame

Next ==
  \/ \E m, t \in BOOLEAN : Call(m, t)
  \/ Open
  \/ \E ioError \in BOOLEAN : Read(ioError)
  \/ Close
  \/ CheckCrc
  \/ FormatTimes
  \/ Store
  \/ Emit
  \/ Return
  \/ \E img \in ValidImages : WriteControlFile(img)
  \/ \E b \in FlipBits : Damage(b)
  \/ \E img \in ValidImages, k \in TearPoints : TornWrite(img, k)
  \/ \E n \in ShortLengths : Truncate(n)
  \/ Unlink
  \/ \E z \in TimeZones : SetTZ(z)

Spec == Init /\ [][Next]_vars

\* ================================================================ claims

\* the record in ControlFile is whole and its stored crc is the CRC of the
\* bytes before it
CrcMatches(cf) ==
  Len(cf) = SizeofControlFileData /\ ComputedCrc(cf) = StoredCrc(cf)

\* the 30 rows that a record decodes to in timezone z
Decode(cf, z) ==
  [i \in 1..NFields |->
     <<Names[i],
       FieldText(i - 1, cf,
                 strftime(localtime(z, Member(cf, Off.time, 8))),
                 strftime(localtime(z, Member(cf, Off.ckptTime, 8))),
                 FormatUnsigned(Member(cf, Off.system_identifier, 8)))>>]

\* 30 rows, the labels in the order of the table, no NULL value
WellFormed(rows) ==
  /\ Len(rows) = NFields
  /\ \A i \in 1..NFields : rows[i][1] = Names[i] /\ rows[i][2] \notin {NULL, DANGLING}

Unrecognized == "unrecognized status code"

\* the call has got past the CRC comparison of line 236
PastCheck == pc \in {"time", "store", "emit", "return", "crashed"}

\* C1 (as claimed): every call that read the whole record and found its
\* checksum matching succeeds and hands back 30 well-formed rows: it does not
\* die on the way, and what it is about to return is the 30 rows.
C1_ValidRecordAlwaysDecodes ==
  /\ (PastCheck /\ CrcMatches(ControlFile)) => pc # "crashed"
  /\ pc = "return" => WellFormed(tupstore)

\* C2: whenever the record read in full has a stored crc that differs from
\* the CRC computed over the bytes before it, the CRC step ends the call with
\* the checksum error: no rows, no setting written, no field decoded.
C2_MismatchIsChecksumError ==
  [][(pc = "crc" /\ ~CrcMatches(ControlFile))
       => /\ pc' = "idle"
          /\ result'.status = "CRC checksum does not match"
          /\ result'.rows = <<>>
          /\ ControlData' = ControlData
          /\ pgctime_str' = "" /\ ckpttime_str' = "" /\ sysident_str' = ""]_vars

\* C2's case: a call has just failed with the checksum error on a file that is
\* an intact record with one bit before the crc member flipped
C2_Witness ==
  /\ pc = "idle"
  /\ result.status = "CRC checksum does not match"
  /\ file.exists
  /\ \E img \in ValidImages, b \in FlipBits : file.data = FlipBit(img, b)

\* C3 (as claimed): whenever no call is in progress the process holds no
\* descriptor that a call opened.
C3_NoDescriptorLeftOpen == pc = "idle" => openFds = 0

C5_ShortReadIsReadError ==
  [][/\ (pc = "read" /\ pc' # "read" /\ Len(file.data) < SizeofControlFileData)
          => /\ pc' = "idle"
             /\ result'.status = "could not read file"
             /\ result'.rows = <<>>
             /\ ControlData' = ControlData
     /\ (pc' \in {"close", "crc", "time", "store", "emit", "return"})
          => ControlFile' = SubSeq(file.data, 1, SizeofControlFileData)]_vars

\* C5's case: a call has just failed with the read error on a file that
\* exists and is shorter than the record
C5_Witness ==
  /\ pc = "idle"
  /\ result.status = "could not read file"
  /\ file.exists
  /\ Len(file.data) \in 1..(SizeofControlFileData - 1)

\* C6: a call that ends in an error returns no rows and its last step writes
\* no setting; a setting is written only by the step of lines 263-383, taken
\* after that call's CRC comparison succeeded (the release of the strings
\* when a successful call's query ends aside).
C6_AllOrNothing ==
  [][/\ (pc' = "idle" /\ result'.status # "ok" /\ pc # "idle")
          => result'.rows = <<>> /\ ControlData' = ControlData
     /\ (pc' = "idle" /\ pc = "idle" /\ result' # result)
          => result'.rows = <<>> /\ ControlData' = ControlData
     /\ (ControlData' # ControlData /\ pc # "return")
          => pc = "store" /\ CrcMatches(ControlFile)]_vars

\* C6's case: a call has failed on a checksum mismatch after an earlier call
\* had succeeded, and the table is as that earlier call's end left it
C6_Witness ==
  /\ pc = "idle"
  /\ result.status = "CRC checksum does not match"
  /\ \A i \in 0..(NFields - 1) : ControlData[i].setting = DANGLING

\* C7 (as claimed): when the last call failed with the checksum error and a
\* call that got to open the file ends while the file holds an intact record,
\* that call succeeds with the 30 rows of that record.
C7_RetryAfterChecksumErrorSucceeds ==
  [][(/\ result.status = "CRC checksum does not match"
      /\ pc # "idle"
      /\ pc' \in {"idle", "crashed"}
      /\ file.exists
      /\ file.data \in ValidImages)
       => /\ pc' = "idle"
          /\ result'.status = "ok"
          /\ result'.rows = Decode(file.data, tz)]_vars

\* C8 (as claimed): a call that read a checksum-valid record whose state is
\* none of the six that dbState knows succeeds and returns 30 rows with
\* "unrecognized status code" in row 3; for the six known states row 3 is the
\* state's own text.
KnownStates ==
  {DB_STARTUP, DB_SHUTDOWNED, DB_SHUTDOWNING, DB_IN_CRASH_RECOVERY,
   DB_IN_ARCHIVE_RECOVERY, DB_IN_PRODUCTION}

StateOf(cf) == Int32(Member(cf, Off.state, 4))

C8_UnknownStateStillDecodes ==
  /\ (PastCheck /\ CrcMatches(ControlFile) /\ StateOf(ControlFile) \notin KnownStates)
       => pc # "crashed"
  /\ pc = "return"
       => /\ Len(tupstore) = NFields
          /\ (tupstore[4][2] = Unrecognized) = (StateOf(ControlFile) \notin KnownStates)

\* C9: when a call returns rows and the call before it returned rows from
\* the same record bytes in the same timezone, the two return equal rows.
C9_SameFileSameOutput ==
  [][(/\ pc = "return"
      /\ pc' = "idle"
      /\ result.status = "ok"
      /\ result.read = ControlFile
      /\ result.tz = tz)
       => result'.rows = result.rows]_vars

\* C9's case: the second of two successive calls on the same record is
\* returning the rows the first returned
C9_Witness ==
  /\ pc = "return"
  /\ result.status = "ok"
  /\ result.read = ControlFile
  /\ result.tz = tz
  /\ tupstore = result.rows

\* C10: in every state the 30 labels are the initializer's, in its order,
\* the sentinel is {NULL, NULL}, and a call that returns returns 30 rows.
C10_LabelsAndSentinelKept ==
  /\ DOMAIN ControlData = 0..NFields
  /\ \A i \in 0..(NFields - 1) : ControlData[i].name = Names[i + 1]
  /\ ControlData[NFields] = [name |-> NULL, setting |-> NULL]
  /\ pc = "return" => Len(tupstore) = NFields
  /\ result.status = "ok" => Len(result.rows) = NFields

\* C10's case: a successful call and then a failed one have run
C10_Witness ==
  /\ pc = "idle"
  /\ result.status = "could not read file"
  /\ ControlData[0].setting = DANGLING
  /\ ControlData[NFields - 1].setting = DANGLING

====
